---- MODULE Spec2Model ----
(***************************************************************************)
(* Model of the exploration planner's decision core:                       *)
(*   - MissionOptimizer.greedy_mission_scheduler   (src/src/optimizer.py)  *)
(*   - RobotSiteMatcher compatibility scoring      (src/src/matching.py)   *)
(*   - SitePrioritizationEngine weights / scoring  (src/src/scoring.py)    *)
(*   - the weight normalisation of main()          (src/app.py)            *)
(*                                                                         *)
(* Floating point quantities are modelled in fixed point:                  *)
(*   time     1 tick  = 1/20 hour (3 minutes), start_date = tick 0         *)
(*   money    1 unit  = 1/480 USD, so that day_rate * ticks is the exact   *)
(*            cost of a mission (rate per day * hours / 24)                *)
(*   scores   1 unit  = 0.01 point                                         *)
(*   weights  1 unit  = 0.000001                                           *)
(***************************************************************************)
EXTENDS Integers, Sequences, FiniteSets, TLC

VARIABLES
    robots,            \* MissionOptimizer.robots_df: the roster, in input order
    sites,             \* MissionOptimizer.sites_df: the sites, in input order
    pc,                \* position of the scheduler run
    time_window_days,  \* parameters of the run
    budget_usd,
    prioritize_by,
    sites_sorted,      \* the sites in the order the loop visits them
    site_pos,          \* index in sites_sorted of the next site of the loop
    missions,          \* the list of committed missions
    remaining_budget,
    robot_schedules,   \* robot_id -> [available_from, missions]
    statistics,        \* the statistics of the returned dictionary
    error,             \* the exception the run raised, "none" otherwise
    m_robot,           \* matcher query: the robot dictionary
    m_site,            \* matcher query: the site dictionary
    m_score,           \* matcher query: calculate_compatibility_score result
    m_simple,          \* optimizer.calculate_compatibility_score_simple result for the pair
    m_detail,          \* get_detailed_compatibility record for the pair
    f_query,           \* matcher over the fleet: the query made
    f_result,          \* its result
    f_error,           \* the exception it raised, "none" otherwise
    raw_weights,       \* app: st.session_state.raw_weights
    weights,           \* weight set handed to the scoring engine
    engine,            \* scoring engine: "none", "constructed", "ValueError"
    engine_weights,    \* SitePrioritizationEngine.weights
    scored,            \* score_sites: the sites with their composite_score
    e_site,            \* economics query: the site dictionary
    e_price,           \* economics query: mineral_price_per_ton, in 0.001 USD
    e_composite,       \* economics query: the composite score of the site
    e_viability,       \* calculate_economic_viability result
    e_priority         \* categorize_priority result

schedVars == <<robots, sites, pc, time_window_days, budget_usd, prioritize_by,
               sites_sorted, site_pos, missions, remaining_budget,
               robot_schedules, statistics, error>>
pairVars == <<m_robot, m_site, m_score, m_simple, m_detail>>
fleetVars == <<f_query, f_result, f_error>>
matchVars == <<pairVars, fleetVars>>
econVars == <<e_site, e_price, e_composite, e_viability, e_priority>>
scoreVars == <<raw_weights, weights, engine, engine_weights, scored, econVars>>
vars == <<schedVars, matchVars, scoreVars>>

----------------------------------------------------------------------------
(* Bounds of the model *)

MaxRobots == 2         \* largest roster
MaxSites == 3          \* largest site list

----------------------------------------------------------------------------
(* Units and program constants *)

TicksPerHour == 20
HoursPerDay == 24
TicksPerDay == TicksPerHour * HoursPerDay
UnitsPerUsd == TicksPerDay
MetresPerDegree == 111319          \* one degree of longitude on the equator
MetresPerNauticalMile == 1852
VesselSpeedKnots == 12
VesselDayRate == 75000
OperationalDayRate == 15000
DeploymentHours == 4
MinSchedulerScore == 40

Abs(x) == IF x < 0 THEN -x ELSE x
Min(a, b) == IF a <= b THEN a ELSE b

\* Python round(): n/d rounded to the nearest integer, ties to even (n >= 0)
RoundHalfEven(n, d) ==
    LET q == n \div d
        r == n % d
    IN  IF 2 * r < d THEN q
        ELSE IF 2 * r > d THEN q + 1
        ELSE IF q % 2 = 0 THEN q ELSE q + 1

\* round(x, 2) of an amount of money: units of 1/480 USD to cents
RoundCents(units) == RoundHalfEven(units * 5, 24)
\* round(x, 1) of a duration: ticks to tenths of an hour
RoundTenths(ticks) == RoundHalfEven(ticks, 2)

\* floor(n * 10^k / d) by long division (n, d small enough that 10 * d fits)
RECURSIVE ScaledQuotient(_, _, _)
ScaledQuotient(n, d, k) ==
    IF k = 0 THEN [q |-> n \div d, r |-> n % d]
    ELSE LET p == ScaledQuotient(n, d, k - 1)
         IN  [q |-> p.q * 10 + (p.r * 10) \div d, r |-> (p.r * 10) % d]

\* round(n / d * 100, 2) in hundredths of a percent
RoundPercent(n, d) ==
    LET p == ScaledQuotient(n, d, 4)
    IN  IF 2 * p.r < d THEN p.q
        ELSE IF 2 * p.r > d THEN p.q + 1
        ELSE IF p.q % 2 = 0 THEN p.q ELSE p.q + 1

----------------------------------------------------------------------------
(* Input data *)

BaselineSensors == {"side_scan_sonar", "multi_beam_echo_sounder", "HD_camera"}
AllSensors == BaselineSensors \cup
              {"magnetometer", "sub_bottom_profiler", "sediment_sampler"}

Statuses == {"Available", "In Maintenance", "Deployed", "Retired", "Lost"}

\* mineral type labels, as sequences of words
Nodules == <<"Polymetallic", "Nodules">>
Sulfides == <<"Polymetallic", "Sulfides">>
RareEarth == <<"Rare", "Earth", "Elements">>
CobaltCrust == <<"Cobalt", "Crust">>

RobotPool == <<
    [robot_id |-> 1, status |-> "Available", max_depth_m |-> 6000,
     sensors |-> BaselineSensors \cup {"magnetometer"}, speed_knots |-> 3,
     endurance_hours |-> 10, day_rate_usd |-> 10001, lon |-> 0],
    [robot_id |-> 2, status |-> "Available", max_depth_m |-> 3000,
     sensors |-> {"side_scan_sonar", "multi_beam_echo_sounder"}, speed_knots |-> 2,
     endurance_hours |-> 30, day_rate_usd |-> 30000, lon |-> 1],
    [robot_id |-> 3, status |-> "In Maintenance", max_depth_m |-> 11000,
     sensors |-> AllSensors, speed_knots |-> 3,
     endurance_hours |-> 40, day_rate_usd |-> 45000, lon |-> 0],
    [robot_id |-> 4, status |-> "Deployed", max_depth_m |-> 6000,
     sensors |-> BaselineSensors, speed_knots |-> 4,
     endurance_hours |-> 20, day_rate_usd |-> 20000, lon |-> 2],
    [robot_id |-> 5, status |-> "Retired", max_depth_m |-> 6000,
     sensors |-> BaselineSensors, speed_knots |-> 2,
     endurance_hours |-> 10, day_rate_usd |-> 5000, lon |-> 1],
    [robot_id |-> 6, status |-> "Lost", max_depth_m |-> 8000,
     sensors |-> AllSensors, speed_knots |-> 3,
     endurance_hours |-> 10, day_rate_usd |-> 8000, lon |-> 0] >>

SitePool == <<
    [site_id |-> 1, distance_from_port_km |-> 500, environmental_sensitivity |-> 30,
     survey_data_quality |-> 70, depth_m |-> 2700, terrain_difficulty |-> 50, lon |-> 0,
     mineral_concentration |-> 80, estimated_value_millions |-> 500,
     mineral_types |-> <<Nodules>>],
    [site_id |-> 2, distance_from_port_km |-> 1200, environmental_sensitivity |-> 60,
     survey_data_quality |-> 50, depth_m |-> 5000, terrain_difficulty |-> 20, lon |-> 0,
     mineral_concentration |-> 60, estimated_value_millions |-> 900,
     mineral_types |-> <<Sulfides>>],
    [site_id |-> 3, distance_from_port_km |-> 500, environmental_sensitivity |-> 30,
     survey_data_quality |-> 90, depth_m |-> 2700, terrain_difficulty |-> 80, lon |-> 1,
     mineral_concentration |-> 60, estimated_value_millions |-> 300,
     mineral_types |-> <<CobaltCrust, RareEarth>>],
    [site_id |-> 4, distance_from_port_km |-> 2000, environmental_sensitivity |-> 10,
     survey_data_quality |-> 90, depth_m |-> 7000, terrain_difficulty |-> 10, lon |-> 2,
     mineral_concentration |-> 90, estimated_value_millions |-> 1200,
     mineral_types |-> <<Nodules>>],
    [site_id |-> 5, distance_from_port_km |-> 300, environmental_sensitivity |-> 80,
     survey_data_quality |-> 20, depth_m |-> 1000, terrain_difficulty |-> 0, lon |-> 0,
     mineral_concentration |-> 40, estimated_value_millions |-> 900,
     mineral_types |-> <<RareEarth>>],
    [site_id |-> 6, distance_from_port_km |-> 800, environmental_sensitivity |-> 50,
     survey_data_quality |-> 60, depth_m |-> 5500, terrain_difficulty |-> 30, lon |-> 1,
     mineral_concentration |-> 70, estimated_value_millions |-> 700,
     mineral_types |-> <<Sulfides>>] >>

\* the sub-list of a pool with the given identifiers, in pool order
Roster(ids) == SelectSeq(RobotPool, LAMBDA r : r.robot_id \in ids)
SiteList(ids) == SelectSeq(SitePool, LAMBDA s : s.site_id \in ids)

Rosters == {Roster(ids) : ids \in {x \in SUBSET (1..Len(RobotPool)) :
                                    Cardinality(x) \in 1..MaxRobots}}
SiteLists == {SiteList(ids) : ids \in {x \in SUBSET (1..Len(SitePool)) :
                                        Cardinality(x) \in 1..MaxSites}}

\* budgets of a run, in units of 1/480 USD: 0, 33333.66875, 100000, 120000,
\* 300000 USD
Budgets == {0, 16000161, 100000 * UnitsPerUsd, 120000 * UnitsPerUsd,
            300000 * UnitsPerUsd}
TimeWindows == {0, 1}
PriorityModes == {"score", "value"}

Range(s) == {s[i] : i \in 1..Len(s)}

----------------------------------------------------------------------------
(* MissionOptimizer: the pure helpers *)

\* geodesic distance / (knots * 1.852 km/h), in ticks; locations lie on the equator
calculate_transit_time(from_lon, to_lon, vessel_speed_knots) ==
    (Abs(from_lon - to_lon) * MetresPerDegree * TicksPerHour)
        \div (vessel_speed_knots * MetresPerNauticalMile)

\* survey_hours * depth_factor * terrain_factor + deployment_hours, capped at
\* 80% of the endurance.  In ticks:
\*   20 * (25 / (speed * 1.852)) * 3 * (1 + depth/5000 * 0.5) * (1 + terrain/100 * 0.3)
\*   = 75 * (10000 + depth) * (1000 + 3 * terrain) / (926000 * speed)
calculate_mission_duration(site, robot) ==
    LET survey == (75 * (10000 + site.depth_m) * (1000 + 3 * site.terrain_difficulty))
                      \div (926000 * robot.speed_knots)
        total_hours == survey + DeploymentHours * TicksPerHour
    IN  Min(total_hours, (robot.endurance_hours * 8 * TicksPerHour) \div 10)

\* (robot rate + vessel rate + operational rate) * total_days, in units of 1/480 USD
calculate_mission_cost(robot, mission_duration_hours, transit_time_hours, vessel_day_rate) ==
    LET total_hours == mission_duration_hours + transit_time_hours
        robot_cost == robot.day_rate_usd * total_hours
        vessel_cost == vessel_day_rate * total_hours
        operational_cost == total_hours * OperationalDayRate
    IN  robot_cost + vessel_cost + operational_cost

\* lines 288-292: the depth contribution of the simplified score, as a fraction
\* n/d of a point
\* mutant: a depth within the usable range earns 10 points, not 50
simple_depth_points_ten(robot, site) ==
    IF robot.max_depth_m * 9 >= site.depth_m * 10
    THEN [n |-> 10, d |-> 1]
    ELSE IF robot.max_depth_m < site.depth_m
         THEN [n |-> robot.max_depth_m * 50, d |-> site.depth_m]
         ELSE [n |-> 50, d |-> 1]

simple_depth_points(robot, site) ==
    IF robot.max_depth_m * 9 >= site.depth_m * 10
    THEN [n |-> 50, d |-> 1]
    ELSE IF robot.max_depth_m < site.depth_m
         THEN [n |-> robot.max_depth_m * 50, d |-> site.depth_m]
         ELSE [n |-> 50, d |-> 1]

\* depth fit weighted 50, the three baseline sensors weighted 50; the exact sum
\* to the nearest 0.01 point
calculate_compatibility_score_simple(robot, site) ==
    LET depth_part == simple_depth_points(robot, site)
        required == Cardinality(BaselineSensors)
        matched == Cardinality(BaselineSensors \cap robot.sensors)
    IN  RoundHalfEven(100 * (depth_part.n * required + matched * 50 * depth_part.d),
                      depth_part.d * required)

\* mutant: the status filter is dropped
all_robots(roster) == roster

\* the roster filtered to status 'Available', in roster order
available_robots(roster) == SelectSeq(roster, LAMBDA r : r.status = "Available")

\* the inner loop over robot_schedules: the first robot of maximal score among
\* those whose usable depth covers the site; best_robot = 0 models None
RECURSIVE BestFrom(_, _, _, _)
BestFrom(avail, site, i, best) ==
    IF i > Len(avail) THEN best
    ELSE LET robot == avail[i]
             comp_score == calculate_compatibility_score_simple(robot, site)
         IN  IF robot.max_depth_m * 9 < site.depth_m * 10
             THEN BestFrom(avail, site, i + 1, best)
             ELSE IF comp_score > best.best_score
                  THEN BestFrom(avail, site, i + 1,
                                [best_robot |-> robot.robot_id, best_score |-> comp_score])
                  ELSE BestFrom(avail, site, i + 1, best)

\* mutant: the first Available robot is taken, whatever its depth and score
FindFirstRobot(roster, site) ==
    LET avail == available_robots(roster)
    IN  IF avail = <<>> THEN [best_robot |-> 0, best_score |-> -100]
        ELSE [best_robot |-> avail[1].robot_id,
              best_score |-> calculate_compatibility_score_simple(avail[1], site)]

FindBestRobot(roster, site) ==
    BestFrom(available_robots(roster), site, 1, [best_robot |-> 0, best_score |-> -100])

RobotById(roster, id) == CHOOSE r \in Range(roster) : r.robot_id = id

\* sort_values(key, ascending=False): the orders of the sites that are
\* non-increasing in the key; the order of equal keys is left to the sort
\* mutant: the sites are always ordered by their mineral concentration
PriorityKeyConcentration(site, mode) == site.mineral_concentration

PriorityKey(site, mode) ==
    IF mode = "score" THEN site.mineral_concentration
    ELSE site.estimated_value_millions

IsSortedDescending(seq, mode) ==
    \A i \in 1..(Len(seq) - 1) : PriorityKey(seq[i], mode) >= PriorityKey(seq[i + 1], mode)

\* mutant: the order may name a site twice and leave another out
SortedOrdersWithRepeats(siteList, mode) ==
    {seq \in [1..Len(siteList) -> Range(siteList)] : IsSortedDescending(seq, mode)}

SortedOrders(siteList, mode) ==
    {seq \in [1..Len(siteList) -> Range(siteList)] :
        /\ Range(seq) = Range(siteList)
        /\ IsSortedDescending(seq, mode)}

\* timedelta.days of a non-negative duration
Days(ticks) == ticks \div TicksPerDay

----------------------------------------------------------------------------
(* MissionOptimizer.greedy_mission_scheduler *)

NoStatistics == [total_missions |-> -1]

\* datetime.now() at the call: the origin of the time axis
start_date == 0

\* the site the loop is looking at, and the candidate mission for it
CurrentSite == sites_sorted[site_pos]
Best == FindBestRobot(robots, CurrentSite)
HasCandidate == Best.best_robot # 0 /\ Best.best_score >= MinSchedulerScore * 100
BestRobot == RobotById(robots, Best.best_robot)
\* mutant: every mission starts at the planning start instant
BestStartTimeNow == start_date
BestStartTime == robot_schedules[Best.best_robot].available_from
TransitTime == calculate_transit_time(BestRobot.lon, CurrentSite.lon, VesselSpeedKnots)
MissionDuration == calculate_mission_duration(CurrentSite, BestRobot)
MissionCost == calculate_mission_cost(BestRobot, MissionDuration, TransitTime, VesselDayRate)
\* mutant: the transit is left out of the mission's end
MissionEndNoTransit == BestStartTime + MissionDuration
MissionEnd == BestStartTime + (TransitTime + MissionDuration)

NewMission ==
    [mission_id |-> Len(missions) + 1,
     site_id |-> CurrentSite.site_id,
     robot_id |-> BestRobot.robot_id,
     start_date |-> BestStartTime,
     end_date |-> MissionEnd,
     transit_hours |-> RoundTenths(TransitTime),
     survey_hours |-> RoundTenths(MissionDuration),
     total_hours |-> RoundTenths(TransitTime + MissionDuration),
     cost_usd |-> RoundCents(MissionCost),
     compatibility_score |-> Best.best_score,
     site_longitude |-> CurrentSite.lon]

\* the for loop moves to the next site, or falls through to the statistics
\* mutant: the loop does not advance, it looks at the same site again
NextSiteStuck ==
    /\ site_pos' = site_pos
    /\ pc' = "loop"

NextSite ==
    /\ site_pos' = site_pos + 1
    /\ pc' = IF site_pos + 1 > Len(sites_sorted) THEN "stats" ELSE "loop"

runParams == <<time_window_days, budget_usd, prioritize_by, sites_sorted>>
inputs == <<robots, sites>>

\* lines 141-164: the call, up to the start of the loop
Call ==
    /\ pc = "idle"
    /\ \E w \in TimeWindows, b \in Budgets, mode \in PriorityModes :
         /\ time_window_days' = w
         /\ budget_usd' = b
         /\ prioritize_by' = mode
         /\ \E order \in SortedOrders(sites, mode) : sites_sorted' = order
         /\ remaining_budget' = b
    /\ missions' = <<>>
    /\ robot_schedules' =
         [id \in {r.robot_id : r \in Range(available_robots(robots))} |->
             [available_from |-> start_date, missions |-> <<>>]]
    /\ site_pos' = 1
    /\ pc' = "loop"
    /\ UNCHANGED <<inputs, statistics, error, matchVars, scoreVars>>

\* lines 168-169: the budget is used up, the loop is left
BudgetExhausted ==
    /\ pc = "loop"
    /\ remaining_budget <= 0
    /\ pc' = "stats"
    /\ UNCHANGED <<inputs, runParams, site_pos, missions, remaining_budget,
                   robot_schedules, statistics, error, matchVars, scoreVars>>

\* line 196 false: no robot for the site
NoRobot ==
    /\ pc = "loop"
    /\ remaining_budget > 0
    /\ ~HasCandidate
    /\ NextSite
    /\ UNCHANGED <<inputs, runParams, missions, remaining_budget,
                   robot_schedules, statistics, error, matchVars, scoreVars>>

\* mutant: the rejected mission still occupies the robot
RejectCostBlocksRobot ==
    /\ pc = "loop"
    /\ remaining_budget > 0
    /\ HasCandidate
    /\ MissionCost > remaining_budget
    /\ robot_schedules' =
         [robot_schedules EXCEPT ![BestRobot.robot_id].available_from = MissionEnd]
    /\ NextSite
    /\ UNCHANGED <<inputs, runParams, missions, remaining_budget,
                   statistics, error, matchVars, scoreVars>>

\* lines 217-218: the mission costs more than what is left
RejectCost ==
    /\ pc = "loop"
    /\ remaining_budget > 0
    /\ HasCandidate
    /\ MissionCost > remaining_budget
    /\ NextSite
    /\ UNCHANGED <<inputs, runParams, missions, remaining_budget,
                   robot_schedules, statistics, error, matchVars, scoreVars>>

\* lines 221-225: the mission does not fit in the time window
RejectHorizon ==
    /\ pc = "loop"
    /\ remaining_budget > 0
    /\ HasCandidate
    /\ ~(MissionCost > remaining_budget)
    /\ Days(MissionEnd - start_date) > time_window_days
    /\ NextSite
    /\ UNCHANGED <<inputs, runParams, missions, remaining_budget,
                   robot_schedules, statistics, error, matchVars, scoreVars>>

\* mutant: the commit moves the availability of every robot
CommitAllRobots ==
    /\ pc = "loop"
    /\ remaining_budget > 0
    /\ HasCandidate
    /\ ~(MissionCost > remaining_budget)
    /\ ~(Days(MissionEnd - start_date) > time_window_days)
    /\ missions' = Append(missions, NewMission)
    /\ remaining_budget' = remaining_budget - MissionCost
    /\ robot_schedules' =
         [id \in DOMAIN robot_schedules |->
            [available_from |-> MissionEnd,
             missions |-> IF id = BestRobot.robot_id
                          THEN Append(robot_schedules[id].missions, NewMission)
                          ELSE robot_schedules[id].missions]]
    /\ NextSite
    /\ UNCHANGED <<inputs, runParams, statistics, error, matchVars, scoreVars>>

\* lines 227-250: the mission is scheduled
Commit ==
    /\ pc = "loop"
    /\ remaining_budget > 0
    /\ HasCandidate
    /\ ~(MissionCost > remaining_budget)
    /\ ~(Days(MissionEnd - start_date) > time_window_days)
    /\ missions' = Append(missions, NewMission)
    /\ remaining_budget' = remaining_budget - MissionCost
    /\ robot_schedules' =
         [robot_schedules EXCEPT
            ![BestRobot.robot_id] =
                [available_from |-> MissionEnd,
                 missions |-> Append(@.missions, NewMission)]]
    /\ NextSite
    /\ UNCHANGED <<inputs, runParams, statistics, error, matchVars, scoreVars>>

MissionSites(ms) == {ms[i].site_id : i \in 1..Len(ms)}
MissionRobots(ms) == {ms[i].robot_id : i \in 1..Len(ms)}

\* lines 252-271: the statistics of the returned dictionary
\* mutant: the robots used are counted per mission, not per distinct robot
ComputeStatisticsPerMission ==
    LET total_cost == budget_usd - remaining_budget
        num_sites_surveyed == Cardinality(MissionSites(missions))
    IN  [total_missions |-> Len(missions),
         total_cost_usd |-> RoundCents(total_cost),
         remaining_budget_usd |-> RoundCents(remaining_budget),
         budget_utilization_percent |-> RoundPercent(total_cost, budget_usd),
         num_sites_surveyed |-> num_sites_surveyed,
         num_robots_used |-> Len(missions),
         coverage_percent |-> RoundHalfEven(num_sites_surveyed * 10000, Len(sites)),
         avg_mission_cost_usd |->
             IF Len(missions) > 0
             THEN RoundHalfEven(total_cost * 5, 24 * Len(missions))
             ELSE 0]

ComputeStatistics ==
    LET total_cost == budget_usd - remaining_budget
        num_sites_surveyed == Cardinality(MissionSites(missions))
        num_robots_used == Cardinality(MissionRobots(missions))
    IN  [total_missions |-> Len(missions),
         total_cost_usd |-> RoundCents(total_cost),
         remaining_budget_usd |-> RoundCents(remaining_budget),
         budget_utilization_percent |-> RoundPercent(total_cost, budget_usd),
         num_sites_surveyed |-> num_sites_surveyed,
         num_robots_used |-> num_robots_used,
         coverage_percent |-> RoundHalfEven(num_sites_surveyed * 10000, Len(sites)),
         avg_mission_cost_usd |->
             IF Len(missions) > 0
             THEN RoundHalfEven(total_cost * 5, 24 * Len(missions))
             ELSE 0]

\* the run returns the missions and the statistics
ReturnStatistics ==
    /\ pc = "stats"
    /\ budget_usd # 0
    /\ statistics' = ComputeStatistics
    /\ pc' = "done"
    /\ UNCHANGED <<inputs, runParams, site_pos, missions, remaining_budget,
                   robot_schedules, error, matchVars, scoreVars>>

\* line 265: total_cost / budget_usd with budget_usd = 0
RaiseZeroDivision ==
    /\ pc = "stats"
    /\ budget_usd = 0
    /\ error' = "ZeroDivisionError"
    /\ pc' = "error"
    /\ UNCHANGED <<inputs, runParams, site_pos, missions, remaining_budget,
                   robot_schedules, statistics, matchVars, scoreVars>>

\* the matcher and the scoring engine at rest
PairIdle ==
    /\ m_robot = <<>> /\ m_site = <<>>
    /\ m_score = -1 /\ m_simple = -1 /\ m_detail = <<>>
FleetIdle == f_query = <<>> /\ f_result = <<>> /\ f_error = "none"
MatchIdle == PairIdle /\ FleetIdle
EconIdle ==
    /\ e_site = <<>> /\ e_price = 0 /\ e_composite = 0
    /\ e_viability = <<>> /\ e_priority = <<>>
ScoreIdle ==
    /\ raw_weights = <<>> /\ weights = <<>> /\ engine = "none"
    /\ engine_weights = <<>> /\ scored = <<>>
    /\ EconIdle

SchedIdle ==
    /\ pc = "idle"
    /\ time_window_days = 0 /\ budget_usd = 0 /\ prioritize_by = "score"
    /\ sites_sorted = <<>> /\ site_pos = 0 /\ missions = <<>>
    /\ remaining_budget = 0 /\ robot_schedules = <<>>
    /\ statistics = NoStatistics /\ error = "none"

Init ==
    /\ robots \in Rosters
    /\ sites \in SiteLists
    /\ SchedIdle
    /\ MatchIdle
    /\ ScoreIdle

Next ==
    \/ Call
    \/ BudgetExhausted
    \/ NoRobot
    \/ RejectCost
    \/ RejectHorizon
    \/ Commit
    \/ ReturnStatistics
    \/ RaiseZeroDivision

Spec == Init /\ [][Next]_vars

\* the rosters of Available robots: the others get no schedule and are
\* skipped by the loop
AvailableRosters ==
    {roster \in Rosters : \A i \in 1..Len(roster) : roster[i].status = "Available"}

InitLive ==
    /\ robots \in AvailableRosters
    /\ sites \in SiteLists
    /\ SchedIdle
    /\ MatchIdle
    /\ ScoreIdle

\* the call is sequential code: a step that can be taken is taken
SpecLive == InitLive /\ [][Next]_vars /\ WF_vars(Next)

----------------------------------------------------------------------------
(* Properties of the scheduler *)

RECURSIVE SumCostUsd(_)
SumCostUsd(ms) == IF ms = <<>> THEN 0 ELSE Head(ms).cost_usd + SumCostUsd(Tail(ms))

SiteById(id) == CHOOSE s \in Range(sites) : s.site_id = id
Returned == pc \in {"done", "error"}

\* C1: in every state of a run, the sum of cost_usd (cents) over the missions
\* scheduled so far is at most budget_usd (units of 1/480 USD):
\* cents / 100 <= units / 480.
C1_CostWithinBudget ==
    pc # "idle" => SumCostUsd(missions) * 24 <= budget_usd * 5

\* C2: two distinct missions of the same robot never overlap as half-open
\* intervals [start_date, end_date): one ends no later than the other starts.
C2_NoOverlapPerRobot ==
    \A i, j \in 1..Len(missions) :
        (i # j /\ missions[i].robot_id = missions[j].robot_id) =>
            \/ missions[i].end_date <= missions[j].start_date
            \/ missions[j].end_date <= missions[i].start_date

\* a robot carries two missions
C2_Witness ==
    \E i, j \in 1..Len(missions) : i # j /\ missions[i].robot_id = missions[j].robot_id

\* C3: every scheduled mission is flown by a robot of the roster whose status
\* is 'Available'.
C3_OnlyAvailableRobots ==
    \A i \in 1..Len(missions) :
        \E r \in Range(robots) :
            r.robot_id = missions[i].robot_id /\ r.status = "Available"

\* a mission is scheduled although the roster holds a robot that is not
\* Available and whose usable depth covers the mission's site
C3_Witness ==
    \E i \in 1..Len(missions) :
        \E r \in Range(robots) :
            /\ r.status # "Available"
            /\ r.max_depth_m * 9 >= SiteById(missions[i].site_id).depth_m * 10

\* C4: a run with budget_usd = 0 returns without an error, with no mission and
\* with total_cost_usd = 0 and coverage_percent = 0 in the statistics.
C4_ZeroBudgetReturns ==
    (Returned /\ budget_usd = 0) =>
        /\ error = "none"
        /\ missions = <<>>
        /\ statistics.total_cost_usd = 0
        /\ statistics.coverage_percent = 0

\* C5: a run that schedules no mission still returns statistics (no division
\* by zero), with avg_mission_cost_usd, total_missions and total_cost_usd all 0.
C5_EmptyRunStatistics ==
    (Returned /\ missions = <<>>) =>
        /\ error = "none"
        /\ statistics.avg_mission_cost_usd = 0
        /\ statistics.total_missions = 0
        /\ statistics.total_cost_usd = 0

\* C6: every scheduled mission ends at its start plus the transit time from
\* the robot to the site plus the survey duration, strictly after its start.
C6_EndIsStartPlusHours ==
    \A i \in 1..Len(missions) :
        LET m == missions[i]
            robot == RobotById(robots, m.robot_id)
            site == SiteById(m.site_id)
        IN  /\ m.end_date = m.start_date
                  + calculate_transit_time(robot.lon, site.lon, VesselSpeedKnots)
                  + calculate_mission_duration(site, robot)
            /\ m.end_date > m.start_date

\* a mission of a robot that is already at the site and whose endurance cap
\* shortens the survey, and a mission with a transit
C6_Witness ==
    /\ \E i \in 1..Len(missions) :
        LET m == missions[i]
            robot == RobotById(robots, m.robot_id)
            site == SiteById(m.site_id)
        IN  /\ robot.lon = site.lon
            /\ m.end_date - m.start_date = (robot.endurance_hours * 8 * TicksPerHour) \div 10
    /\ \E i \in 1..Len(missions) :
        RobotById(robots, missions[i].robot_id).lon # SiteById(missions[i].site_id).lon

\* the end of the planning horizon
HorizonEnd == start_date + time_window_days * TicksPerDay

\* C19: every committed mission ends within the planning horizon: end_date is
\* no later than the start of the run plus time_window_days days.
C19_EndWithinHorizon ==
    \A i \in 1..Len(missions) : missions[i].end_date <= HorizonEnd

\* the origin of the transit of mission i, as C20 has it: the site of the
\* robot's previous mission of the run, or else the robot's current_location
PreviousMissions(i) ==
    {j \in 1..(i - 1) : missions[j].robot_id = missions[i].robot_id}

TransitOrigin(i) ==
    IF PreviousMissions(i) = {}
    THEN RobotById(robots, missions[i].robot_id).lon
    ELSE LET last == CHOOSE j \in PreviousMissions(i) :
                        \A k \in PreviousMissions(i) : k <= j
         IN  SiteById(missions[last].site_id).lon

\* C20: the transit time of a mission is computed from the robot's most recent
\* location: the site of its last committed mission of the run if there is
\* one, otherwise its current_location.
C20_TransitFromLastLocation ==
    \A i \in 1..Len(missions) :
        LET transit == calculate_transit_time(TransitOrigin(i),
                           SiteById(missions[i].site_id).lon, VesselSpeedKnots)
        IN  /\ missions[i].transit_hours = RoundTenths(transit)
            /\ missions[i].end_date - missions[i].start_date
                   = transit + calculate_mission_duration(
                                   SiteById(missions[i].site_id),
                                   RobotById(robots, missions[i].robot_id))

\* the loop is looking at a site
Considering == pc = "loop" /\ remaining_budget > 0

\* the Available robots whose usable depth covers the site
Eligible(site) ==
    {r \in Range(robots) :
        r.status = "Available" /\ r.max_depth_m * 9 >= site.depth_m * 10}

\* a step of the run that commits a mission
Commits == Len(missions') = Len(missions) + 1
Committed == missions'[Len(missions')]

\* C21: for each site considered, the robot chosen is an Available robot with
\* 0.9 x max_depth_m >= site depth whose simplified score is maximal among all
\* such robots; without such a robot, or with a maximal score below 40, no
\* mission is created for the site.  Every committed mission has
\* compatibility_score >= 40 and a robot whose usable depth covers the site.
C21_BestRobotChosen ==
    /\ [][Considering =>
            /\ Commits =>
                /\ Committed.site_id = CurrentSite.site_id
                /\ \E r \in Eligible(CurrentSite) :
                    /\ r.robot_id = Committed.robot_id
                    /\ Committed.compatibility_score
                          = calculate_compatibility_score_simple(r, CurrentSite)
                    /\ \A q \in Eligible(CurrentSite) :
                          calculate_compatibility_score_simple(q, CurrentSite)
                              <= calculate_compatibility_score_simple(r, CurrentSite)
            /\ (\A r \in Eligible(CurrentSite) :
                    calculate_compatibility_score_simple(r, CurrentSite) < 40 * 100)
                => missions' = missions]_vars
    /\ [](\A i \in 1..Len(missions) :
            /\ missions[i].compatibility_score >= 40 * 100
            /\ RobotById(robots, missions[i].robot_id) \in
                  Eligible(SiteById(missions[i].site_id)))

\* a mission whose robot was preferred to another eligible robot of lower score
C21_Witness ==
    \E i \in 1..Len(missions) :
        \E q \in Eligible(SiteById(missions[i].site_id)) :
            /\ q.robot_id # missions[i].robot_id
            /\ calculate_compatibility_score_simple(q, SiteById(missions[i].site_id))
                  < missions[i].compatibility_score

\* the candidate mission of the site considered is rejected: for its cost
\* (line 217) or for its end (line 224)
Rejected ==
    /\ Considering
    /\ HasCandidate
    /\ \/ MissionCost > remaining_budget
       \/ Days(MissionEnd - start_date) > time_window_days

\* C22: when a candidate mission is rejected because its cost exceeds the
\* remaining budget or because it ends beyond the horizon, the mission list,
\* the remaining budget and every robot's availability timestamp keep their
\* values, and the scheduler proceeds to the next site.
C22_RejectLeavesState ==
    [][Rejected =>
        /\ missions' = missions
        /\ remaining_budget' = remaining_budget
        /\ robot_schedules' = robot_schedules
        /\ site_pos' = site_pos + 1
        /\ pc' = IF site_pos < Len(sites_sorted) THEN "loop" ELSE "stats"]_vars

\* the site at position i of the order had a candidate mission and got none
RejectedAt(i) ==
    /\ i < site_pos
    /\ sites_sorted[i].site_id \notin MissionSites(missions)
    /\ FindBestRobot(robots, sites_sorted[i]).best_robot # 0

\* a site was rejected and a later site of the order got its mission
C22_Witness ==
    \E i \in 1..Len(sites_sorted) :
        /\ RejectedAt(i)
        /\ \E k \in 1..Len(missions) :
            \E j \in (i + 1)..Len(sites_sorted) :
                /\ j < site_pos
                /\ sites_sorted[j].site_id = missions[k].site_id

\* the cost of a mission of the list: calculate_mission_cost over the hours
\* between its start and its end
MissionCostOf(m) ==
    calculate_mission_cost(RobotById(robots, m.robot_id),
                           m.end_date - m.start_date, 0, VesselDayRate)

\* C23: committing a mission appends exactly one mission to the list and
\* leaves the earlier ones as they are, reduces the remaining budget by exactly
\* that mission's cost, sets the chosen robot's availability timestamp to the
\* mission's end and leaves every other robot's timestamp unchanged; so each
\* robot's first mission starts at the planning start instant and each later
\* one starts exactly at the end of that robot's previous mission.
C23_CommitEffects ==
    /\ [][/\ pc # "idle" =>
                /\ Len(missions') >= Len(missions)
                /\ Len(missions') <= Len(missions) + 1
                /\ SubSeq(missions', 1, Len(missions)) = missions
          /\ Commits =>
                /\ remaining_budget - remaining_budget' = MissionCostOf(Committed)
                /\ Committed.cost_usd = RoundCents(MissionCostOf(Committed))
                /\ robot_schedules'[Committed.robot_id].available_from
                      = Committed.end_date
                /\ DOMAIN robot_schedules' = DOMAIN robot_schedules
                /\ \A id \in DOMAIN robot_schedules :
                      id # Committed.robot_id =>
                          robot_schedules'[id].available_from
                              = robot_schedules[id].available_from
          /\ pc # "idle" /\ ~Commits => robot_schedules' = robot_schedules]_vars
    /\ [](\A i \in 1..Len(missions) :
            missions[i].start_date =
                IF PreviousMissions(i) = {} THEN start_date
                ELSE missions[CHOOSE j \in PreviousMissions(i) :
                                \A k \in PreviousMissions(i) : k <= j].end_date)

\* a run with two Available robots in which one robot got a second mission
C23_Witness ==
    /\ Cardinality(DOMAIN robot_schedules) = 2
    /\ \E i \in 1..Len(missions) :
        /\ PreviousMissions(i) # {}
        /\ missions[i].start_date > start_date
        /\ \E id \in DOMAIN robot_schedules :
            /\ id # missions[i].robot_id
            /\ robot_schedules[id].available_from = start_date

\* the priority metric of a site in the current run
Metric(site) ==
    IF prioritize_by = "score" THEN site.mineral_concentration
    ELSE site.estimated_value_millions

\* the position of a site in the order of consideration
PositionOf(site_id) == CHOOSE p \in 1..Len(sites_sorted) : sites_sorted[p].site_id = site_id

\* C24: the sites are considered in non-increasing order of the priority
\* metric (mineral_concentration for 'score', estimated_value_millions
\* otherwise); the missions follow that order, so their sites' metric is
\* non-increasing along the list, and mission_id counts 1, 2, 3, ... along it
C24_PriorityOrder ==
    pc # "idle" =>
        /\ Len(sites_sorted) = Len(sites)
        /\ Range(sites_sorted) = Range(sites)
        /\ \A p \in 1..(Len(sites_sorted) - 1) :
               Metric(sites_sorted[p]) >= Metric(sites_sorted[p + 1])
        /\ \A i \in 1..Len(missions) :
               /\ missions[i].mission_id = i
               /\ PositionOf(missions[i].site_id) < site_pos
        /\ \A i, j \in 1..Len(missions) :
               i < j =>
                 /\ PositionOf(missions[i].site_id) < PositionOf(missions[j].site_id)
                 /\ Metric(SiteById(missions[i].site_id))
                      >= Metric(SiteById(missions[j].site_id))

\* a run by value whose first two missions would be the other way round by
\* mineral concentration
C24_Witness ==
    /\ pc = "done"
    /\ prioritize_by = "value"
    /\ Len(missions) >= 2
    /\ SiteById(missions[1].site_id).estimated_value_millions
         > SiteById(missions[2].site_id).estimated_value_millions
    /\ SiteById(missions[1].site_id).mineral_concentration
         < SiteById(missions[2].site_id).mineral_concentration

\* the sum of the costs of the missions, in units of 1/480 USD
RECURSIVE SumMissionCost(_)
SumMissionCost(ms) ==
    IF ms = <<>> THEN 0 ELSE MissionCostOf(Head(ms)) + SumMissionCost(Tail(ms))

\* cents is units (1/480 USD) rounded to the nearest cent; hundredths is the
\* fraction n / d rounded to the nearest 0.01
NearestCent(cents, units) == Abs(cents * 24 - units * 5) * 2 <= 24
NearestHundredth(hundredths, n, d) == Abs(hundredths * d - n * 100) * 2 <= d

StatisticsCounts ==
    /\ statistics.total_missions = Len(missions)
    /\ statistics.num_sites_surveyed
         = Cardinality({missions[i].site_id : i \in 1..Len(missions)})
    /\ statistics.num_robots_used
         = Cardinality({missions[i].robot_id : i \in 1..Len(missions)})

\* C25 as stated: in the returned statistics total_missions is the number
\* of missions, total_cost_usd is exactly the sum of the missions' costs,
\* total_cost_usd + remaining_budget_usd is exactly budget_usd, the two
\* counts are the numbers of distinct site_ids and robot_ids, and
\* coverage_percent is exactly 100 x num_sites_surveyed / number of sites
C25_StatisticsExact ==
    pc = "done" =>
        /\ StatisticsCounts
        /\ statistics.total_cost_usd * 24 = SumMissionCost(missions) * 5
        /\ (statistics.total_cost_usd + statistics.remaining_budget_usd) * 24
             = budget_usd * 5
        /\ statistics.coverage_percent * Len(sites)
             = statistics.num_sites_surveyed * 10000

\* C25 amended: the counts are exact; total_cost_usd is the sum of the
\* missions' costs and remaining_budget_usd is budget_usd minus that sum,
\* each rounded to the nearest cent, so that their sum is within a cent of
\* budget_usd; coverage_percent is 100 x num_sites_surveyed / number of
\* sites rounded to the nearest 0.01
C25_StatisticsRounded ==
    pc = "done" =>
        /\ StatisticsCounts
        /\ NearestCent(statistics.total_cost_usd, SumMissionCost(missions))
        /\ NearestCent(statistics.remaining_budget_usd,
                       budget_usd - SumMissionCost(missions))
        /\ Abs((statistics.total_cost_usd + statistics.remaining_budget_usd) * 24
                - budget_usd * 5) <= 24
        /\ NearestHundredth(statistics.coverage_percent,
                            statistics.num_sites_surveyed * 100, Len(sites))

\* returned statistics of a run in which a robot flew two missions and the
\* coverage is not a whole number of hundredths of a percent
C25_Witness ==
    /\ pc = "done"
    /\ Len(missions) >= 2
    /\ statistics.num_robots_used < statistics.total_missions
    /\ statistics.coverage_percent * Len(sites)
         # statistics.num_sites_surveyed * 10000
    /\ statistics.total_cost_usd * 24 # SumMissionCost(missions) * 5

\* C26: every run terminates.  Each step of the loop moves on to the next
\* site, so a site is looked at once at most; the loop is left when the
\* sites are used up or, before a site is looked at, when the remaining
\* budget is <= 0; once it is left no mission is added; and a run that has
\* started returns (its statistics, or the error of its last line).
C26_Terminates ==
    /\ [][/\ pc = "loop" /\ pc' = "loop" => site_pos' = site_pos + 1
          /\ pc = "loop" /\ remaining_budget <= 0
               => pc' = "stats" /\ missions' = missions
          /\ pc \in {"stats", "done", "error"}
               => /\ missions' = missions
                  /\ pc' \in {"done", "error"}]_vars
    /\ [](pc = "loop" => site_pos \in 1..Len(sites_sorted))
    /\ [](pc \in {"stats", "done", "error"}
            => \/ site_pos = Len(sites_sorted) + 1
               \/ remaining_budget <= 0)
    /\ (pc = "loop") ~> (pc \in {"done", "error"})

\* a run that spent its whole budget on a mission and returned with sites
\* it never looked at
C26_Witness ==
    /\ pc = "done"
    /\ Len(missions) >= 1
    /\ remaining_budget <= 0
    /\ site_pos < Len(sites_sorted)

\* C27: a site is in one mission at most, so there are never more missions
\* than input sites, and the returned total_missions is num_sites_surveyed
C27_OneMissionPerSite ==
    Cardinality({s.site_id : s \in Range(sites)}) = Len(sites) =>
        /\ \A i, j \in 1..Len(missions) :
               missions[i].site_id = missions[j].site_id => i = j
        /\ Len(missions) <= Len(sites)
        /\ pc = "done" => statistics.total_missions = statistics.num_sites_surveyed

\* a returned run with budget and time to spare, whose robot flew more than
\* one site and whose every site got its one mission
C27_Witness ==
    /\ pc = "done"
    /\ remaining_budget > 0
    /\ Len(missions) >= 2
    /\ Len(missions) = Len(sites)
    /\ statistics.num_robots_used = 1
    /\ statistics.total_missions = statistics.num_sites_surveyed

\* the share of the three baseline sensors a robot carries, in 0.01 point of
\* the 50 they weigh
BaselineShare(robot) ==
    RoundHalfEven(5000 * Cardinality(BaselineSensors \cap robot.sensors),
                  Cardinality(BaselineSensors))

\* C28: a robot that passes the depth filter scores at least 50, whatever
\* sensors it carries, so when an
\* Available robot can reach the site the loop has a candidate that meets
\* the threshold of 40; every mission has compatibility_score >= 50, made of
\* the full 50 for the depth and the robot's sensor share (the partial depth
\* credit is never part of a score the scheduler uses)
C28_DepthFilterImpliesThreshold ==
    /\ Considering =>
          /\ \A r \in Eligible(CurrentSite) :
                 /\ calculate_compatibility_score_simple(r, CurrentSite) >= 50 * 100
                 /\ calculate_compatibility_score_simple(r, CurrentSite)
                      = 50 * 100 + BaselineShare(r)
          /\ \A r \in Range(robots), carried \in SUBSET AllSensors :
                 r.max_depth_m * 9 >= CurrentSite.depth_m * 10 =>
                     calculate_compatibility_score_simple(
                         [r EXCEPT !.sensors = carried], CurrentSite) >= 50 * 100
          /\ Eligible(CurrentSite) # {} =>
                 /\ Best.best_robot # 0
                 /\ Best.best_score >= 50 * 100
                 /\ Best.best_score >= MinSchedulerScore * 100
          /\ Eligible(CurrentSite) = {} => Best.best_robot = 0
    /\ \A i \in 1..Len(missions) :
           /\ missions[i].compatibility_score >= 50 * 100
           /\ missions[i].compatibility_score
                = 50 * 100 + BaselineShare(RobotById(robots, missions[i].robot_id))

\* a mission flown by a robot that lacks a baseline sensor
C28_Witness ==
    \E i \in 1..Len(missions) :
        /\ missions[i].compatibility_score < 100 * 100
        /\ BaselineSensors \ RobotById(robots, missions[i].robot_id).sensors # {}

----------------------------------------------------------------------------
(* SitePrioritizationEngine and the weight normalisation of main() *)

Criteria == {"mineral_concentration", "depth", "distance_from_port",
             "environmental_sensitivity", "estimated_value",
             "terrain_difficulty", "survey_data_quality"}

One == 1000000                 \* the weight 1.0
Atol == 10000                  \* atol=0.01
RtolTimesOne == 10             \* numpy.isclose default rtol=1e-05, times |1.0|
MaxNonZero == 2                \* most non-zero entries of a supplied weight set

None == <<>>

DEFAULT_WEIGHTS ==
    [c \in Criteria |->
        CASE c = "mineral_concentration" -> 200000
          [] c = "depth" -> 150000
          [] c = "distance_from_port" -> 100000
          [] c = "environmental_sensitivity" -> 150000
          [] c = "estimated_value" -> 200000
          [] c = "terrain_difficulty" -> 100000
          [] c = "survey_data_quality" -> 100000]

\* sum(weights.values())
SumWeights(w) ==
    w["mineral_concentration"] + w["depth"] + w["distance_from_port"]
    + w["environmental_sensitivity"] + w["estimated_value"]
    + w["terrain_difficulty"] + w["survey_data_quality"]

\* np.isclose(total, 1.0, atol=0.01): |total - 1.0| <= atol + rtol * |1.0|
isclose(total) == Abs(total - One) <= Atol + RtolTimesOne

\* __init__: the weights the engine keeps, and whether _validate_weights passes
SitePrioritizationEngine(w) ==
    LET self_weights == IF w = None THEN DEFAULT_WEIGHTS ELSE w
    IN  IF isclose(SumWeights(self_weights))
        THEN [status |-> "constructed", weights |-> self_weights]
        ELSE [status |-> "ValueError", weights |-> <<>>]

\* mutant: a criterion without spread scores 0
normalize_score_no_spread_zero(value, min_val, max_val, inverse) ==
    IF max_val = min_val THEN 0
    ELSE LET normalized == ((value - min_val) * 10000) \div (max_val - min_val)
         IN  IF inverse THEN 10000 - normalized ELSE normalized

\* normalize_score, in 0.01 point
normalize_score(value, min_val, max_val, inverse) ==
    IF max_val = min_val THEN 5000
    ELSE LET normalized == ((value - min_val) * 10000) \div (max_val - min_val)
         IN  IF inverse THEN 10000 - normalized ELSE normalized

ColumnMin(siteList, col) ==
    CHOOSE v \in {x[col] : x \in Range(siteList)} :
        \A x \in Range(siteList) : v <= x[col]
ColumnMax(siteList, col) ==
    CHOOSE v \in {x[col] : x \in Range(siteList)} :
        \A x \in Range(siteList) : v >= x[col]

SubScore(siteList, site, col, inverse) ==
    normalize_score(site[col], ColumnMin(siteList, col), ColumnMax(siteList, col), inverse)

\* sub-score (0.01 point) times weight (0.000001), in 0.0001 point:
\* floor(s * w / 10000) without leaving 32 bits
Weighted(s, w) == ((s * (w \div 100)) + ((s * (w % 100)) \div 100)) \div 100

\* lines 96-137: the composite score of one site, rounded to 0.01 point
composite_score(ws, siteList, site) ==
    RoundHalfEven(
        Weighted(SubScore(siteList, site, "mineral_concentration", FALSE),
                 ws["mineral_concentration"])
        + Weighted(SubScore(siteList, site, "depth_m", TRUE), ws["depth"])
        + Weighted(SubScore(siteList, site, "distance_from_port_km", TRUE),
                   ws["distance_from_port"])
        + Weighted(SubScore(siteList, site, "environmental_sensitivity", TRUE),
                   ws["environmental_sensitivity"])
        + Weighted(SubScore(siteList, site, "estimated_value_millions", FALSE),
                   ws["estimated_value"])
        + Weighted(SubScore(siteList, site, "terrain_difficulty", TRUE),
                   ws["terrain_difficulty"])
        + Weighted(SubScore(siteList, site, "survey_data_quality", FALSE),
                   ws["survey_data_quality"]),
        100)

\* score_sites: the sites with their sub-scores and their composite score,
\* sorted by the composite score descending
score_sites(ws, siteList) ==
    LET rows == [i \in 1..Len(siteList) |->
                    [site_id |-> siteList[i].site_id,
                     mineral_score |->
                        SubScore(siteList, siteList[i], "mineral_concentration", FALSE),
                     depth_score |-> SubScore(siteList, siteList[i], "depth_m", TRUE),
                     distance_score |->
                        SubScore(siteList, siteList[i], "distance_from_port_km", TRUE),
                     environmental_score |->
                        SubScore(siteList, siteList[i], "environmental_sensitivity", TRUE),
                     value_score |->
                        SubScore(siteList, siteList[i], "estimated_value_millions", FALSE),
                     terrain_score |->
                        SubScore(siteList, siteList[i], "terrain_difficulty", TRUE),
                     quality_score |->
                        SubScore(siteList, siteList[i], "survey_data_quality", FALSE),
                     composite_score |-> composite_score(ws, siteList, siteList[i])]]
    IN  {seq \in [1..Len(rows) -> Range(rows)] :
            /\ Range(seq) = Range(rows)
            /\ \A i \in 1..(Len(seq) - 1) :
                   seq[i].composite_score >= seq[i + 1].composite_score}

\* mutant: no fallback when every raw weight is zero
NormalizeWithoutFallback(raw) ==
    [c \in Criteria |-> (raw[c] * One) \div (IF SumWeights(raw) > 0 THEN SumWeights(raw) ELSE 1)]

\* app.py lines 127-133: raw slider weights (steps of 0.05) to weights
NormalizeWeights(raw) ==
    LET weight_sum == SumWeights(raw)
    IN  IF weight_sum > 0
        THEN [c \in Criteria |-> (raw[c] * One) \div weight_sum]
        ELSE [c \in Criteria |-> One \div 7]

\* slider positions, in steps of 0.05
RawValues == {0, 5, 20}
RawWeightSets == [Criteria -> RawValues]

\* weight sets handed to the constructor by a caller
SuppliedValues == {0, 495000, 500000, 505000, 505005, 1000000}
SuppliedWeightSets ==
    {w \in [Criteria -> SuppliedValues] :
        Cardinality({c \in Criteria : w[c] # 0}) <= MaxNonZero}

\* app.py lines 89-143: the Site Explorer page normalises the slider weights,
\* constructs the engine and scores the sites
MainSiteExplorer ==
    /\ engine = "none"
    /\ \E raw \in RawWeightSets :
         LET w == NormalizeWeights(raw)
             scorer == SitePrioritizationEngine(w)
         IN  /\ raw_weights' = raw
             /\ weights' = w
             /\ engine' = scorer.status
             /\ engine_weights' = scorer.weights
             /\ IF scorer.status = "constructed"
                THEN \E result \in score_sites(scorer.weights, sites) : scored' = result
                ELSE scored' = <<>>
    /\ UNCHANGED <<econVars, schedVars, matchVars>>

\* SitePrioritizationEngine(weights) with a supplied weight set
ConstructSupplied ==
    /\ engine = "none"
    /\ \E w \in SuppliedWeightSets :
         /\ weights' = w
         /\ engine' = SitePrioritizationEngine(w).status
         /\ engine_weights' = SitePrioritizationEngine(w).weights
    /\ UNCHANGED <<raw_weights, scored, econVars, schedVars, matchVars>>

\* SitePrioritizationEngine() without weights
ConstructDefault ==
    /\ engine = "none"
    /\ weights' = None
    /\ engine' = SitePrioritizationEngine(None).status
    /\ engine_weights' = SitePrioritizationEngine(None).weights
    /\ UNCHANGED <<raw_weights, scored, econVars, schedVars, matchVars>>

\* scorer.score_sites(sites)
ScoreSites ==
    /\ engine = "constructed"
    /\ scored = <<>>
    /\ \E result \in score_sites(engine_weights, sites) : scored' = result
    /\ UNCHANGED <<raw_weights, weights, engine, engine_weights, econVars, schedVars, matchVars>>

NextScoring ==
    \/ MainSiteExplorer
    \/ ConstructSupplied
    \/ ConstructDefault
    \/ ScoreSites

\* the sites are loaded; no engine exists yet and no optimizer is involved
InitScoring ==
    /\ sites \in SiteLists
    /\ robots = <<>>
    /\ SchedIdle
    /\ MatchIdle
    /\ ScoreIdle

SpecScoring == InitScoring /\ [][NextScoring]_vars

----------------------------------------------------------------------------
(* Properties of the scoring engine *)

\* C7: a supplied weight set whose sum is not within 0.01 of 1.0 makes the
\* construction fail before anything is scored; a weight set whose sum is
\* within 0.01 of 1.0 is accepted and kept unchanged (never rescaled).
C7_WeightsWithinTolerance ==
    (engine # "none" /\ weights # None) =>
        /\ Abs(SumWeights(weights) - One) > Atol =>
              (engine = "ValueError" /\ scored = <<>>)
        /\ Abs(SumWeights(weights) - One) <= Atol =>
              (engine = "constructed" /\ engine_weights = weights)

\* C8: with any weight set the constructor accepts, every composite_score that
\* score_sites produces lies in [0, 100].
C8_CompositeInRange ==
    \A i \in 1..Len(scored) :
        scored[i].composite_score >= 0 /\ scored[i].composite_score <= 100 * 100

AllRawZero == raw_weights # <<>> /\ \A c \in Criteria : raw_weights[c] = 0

\* C9: when all seven raw weights are zero, the weights handed to the engine
\* are 1/7 each, the engine is constructed and every site is scored.
C9_ZeroWeightsFallBack ==
    AllRawZero =>
        /\ \A c \in Criteria : weights[c] = One \div 7
        /\ engine = "constructed"
        /\ Len(scored) = Len(sites)

\* the Site Explorer page has run with all sliders at zero on several sites
C9_Witness == AllRawZero /\ Len(scored) >= 2

\* the criteria of score_sites: the column, its score column, its direction
ScoreColumns ==
    {[col |-> "mineral_concentration", score |-> "mineral_score", inverse |-> FALSE],
     [col |-> "depth_m", score |-> "depth_score", inverse |-> TRUE],
     [col |-> "distance_from_port_km", score |-> "distance_score", inverse |-> TRUE],
     [col |-> "environmental_sensitivity", score |-> "environmental_score",
      inverse |-> TRUE],
     [col |-> "estimated_value_millions", score |-> "value_score", inverse |-> FALSE],
     [col |-> "terrain_difficulty", score |-> "terrain_score", inverse |-> TRUE],
     [col |-> "survey_data_quality", score |-> "quality_score", inverse |-> FALSE]}

\* values to normalise: below, inside and above a range
NormValues == {0, 1, 40, 100, 2700}

\* C14: normalize_score with inverse = false returns 0 at value = min and 100
\* at value = max (min < max), and 50 for any value in either direction when
\* min = max; so a criterion without variance across the scored sites gives
\* every site the sub-score 50.
C14_NormalizeEndsAndNoSpread ==
    /\ \A lo \in NormValues, hi \in NormValues :
        /\ lo < hi => /\ normalize_score(lo, lo, hi, FALSE) = 0
                      /\ normalize_score(hi, lo, hi, FALSE) = 100 * 100
        /\ \A inverse \in BOOLEAN : normalize_score(hi, lo, lo, inverse) = 50 * 100
    /\ \A i \in 1..Len(scored) : \A c \in ScoreColumns :
        LET value == SiteById(scored[i].site_id)[c.col]
            lo == ColumnMin(sites, c.col)
            hi == ColumnMax(sites, c.col)
        IN  /\ lo = hi => scored[i][c.score] = 50 * 100
            /\ lo < hi /\ ~c.inverse /\ value = lo => scored[i][c.score] = 0
            /\ lo < hi /\ ~c.inverse /\ value = hi => scored[i][c.score] = 100 * 100

\* scored sites of which all have the same depth but not the same concentration
C14_Witness ==
    /\ Len(scored) > 1
    /\ ColumnMin(sites, "depth_m") = ColumnMax(sites, "depth_m")
    /\ ColumnMin(sites, "mineral_concentration") < ColumnMax(sites, "mineral_concentration")
    /\ \A i \in 1..Len(scored) : scored[i].depth_score = 50 * 100

----------------------------------------------------------------------------
(* SitePrioritizationEngine: economic viability and priority tiers *)

\* default arguments of calculate_economic_viability, USD per ton
extraction_cost_per_ton == 50
refining_cost_per_ton == 30
transport_cost_per_ton == 20

\* amounts per ton are held in units of 0.00001 USD
PerTonScale == 100000

\* lines 170-179: total_cost_per_ton.  With
\*   depth_multiplier    = (20000 + depth) / 20000
\*   terrain_multiplier  = (250 + terrain) / 250
\*   distance_multiplier = (50000 + 3 * distance) / 50000
\* the extraction cost is extraction * (20000 + depth) * (250 + terrain) / 50
\* units and the transport cost is transport * (100000 + 6 * distance) units.
total_cost_per_ton(site_data) ==
    (extraction_cost_per_ton * (20000 + site_data.depth_m)
        * (250 + site_data.terrain_difficulty)) \div 50
    + refining_cost_per_ton * PerTonScale
    + transport_cost_per_ton * (PerTonScale + 6 * site_data.distance_from_port_km)

\* lines 182-183: mineral_price_per_ton (in 0.001 USD) * concentration / 100
effective_price_per_ton(site_data, mineral_price_per_ton) ==
    mineral_price_per_ton * site_data.mineral_concentration

\* round(x, 2) of an amount per ton, in cents; the sign is kept apart because
\* RoundHalfEven takes a non-negative numerator
RoundPerTon(amount) ==
    IF amount >= 0 THEN RoundHalfEven(amount, 1000)
    ELSE 0 - RoundHalfEven(0 - amount, 1000)

\* lines 144-212 with the default costs; the tonnage cancels in roi_percent
\* (total_revenue - total_costs) / total_costs, and the annual and NPV figures
\* of the dictionary are left out.  Amounts in cents, roi_percent in 0.01 %.
calculate_economic_viability(site_data, mineral_price_per_ton) ==
    LET cost == total_cost_per_ton(site_data)
        price == effective_price_per_ton(site_data, mineral_price_per_ton)
        profit_per_ton == price - cost
    IN  [total_cost_per_ton |-> RoundPerTon(cost),
         effective_price_per_ton |-> RoundPerTon(price),
         profit_per_ton |-> RoundPerTon(profit_per_ton),
         roi_percent |-> IF profit_per_ton >= 0 THEN RoundPercent(profit_per_ton, cost)
                         ELSE 0 - RoundPercent(0 - profit_per_ton, cost),
         is_viable |-> profit_per_ton > 0]

\* mutant: the return on investment thresholds are inclusive
categorize_priority_inclusive(score, economic_viability) ==
    IF ~economic_viability.is_viable
    THEN [level |-> "Not Viable", color |-> "#d62728"]
    ELSE IF score >= 70 * 100 /\ economic_viability.roi_percent >= 50 * 100
    THEN [level |-> "High Priority", color |-> "#2ca02c"]
    ELSE IF score >= 50 * 100 /\ economic_viability.roi_percent >= 25 * 100
    THEN [level |-> "Medium Priority", color |-> "#ff7f0e"]
    ELSE IF score >= 35 * 100
    THEN [level |-> "Further Study Needed", color |-> "#1f77b4"]
    ELSE [level |-> "Low Priority", color |-> "#bcbd22"]

\* lines 214-236; the score in 0.01 point
categorize_priority(score, economic_viability) ==
    IF ~economic_viability.is_viable
    THEN [level |-> "Not Viable", color |-> "#d62728"]
    ELSE IF score >= 70 * 100 /\ economic_viability.roi_percent > 50 * 100
    THEN [level |-> "High Priority", color |-> "#2ca02c"]
    ELSE IF score >= 50 * 100 /\ economic_viability.roi_percent > 25 * 100
    THEN [level |-> "Medium Priority", color |-> "#ff7f0e"]
    ELSE IF score >= 35 * 100
    THEN [level |-> "Further Study Needed", color |-> "#1f77b4"]
    ELSE [level |-> "Low Priority", color |-> "#bcbd22"]

\* sites whose cost per ton is 100 USD (no depth, distance or terrain) or more
EconSites ==
    [depth_m : {0, 2700}, distance_from_port_km : {0, 500},
     terrain_difficulty : {0, 50}, mineral_concentration : {40, 100}]

\* prices per ton in 0.001 USD: around break-even, a return of 25 % and of
\* 50 % for the 100 USD site, and the default 8000 USD
Prices == {99996, 100000, 100004, 100010, 125000, 125010, 150000, 150004,
           150010, 400000, 8000000}

\* composite scores in 0.01 point, on both sides of every threshold
CompositeScores == {0, 3499, 3500, 4999, 5000, 6999, 7000, 10000}

\* scorer.calculate_economic_viability(site_data, mineral_price_per_ton=...)
CalculateEconomicViability ==
    /\ e_viability = <<>>
    /\ e_viability' = calculate_economic_viability(e_site, e_price)
    /\ UNCHANGED <<e_site, e_price, e_composite, e_priority, raw_weights, weights,
                   engine, engine_weights, scored, schedVars, matchVars>>

\* scorer.categorize_priority(composite_score, economics)
CategorizePriority ==
    /\ e_viability # <<>>
    /\ e_priority = <<>>
    /\ e_priority' = categorize_priority(e_composite, e_viability)
    /\ UNCHANGED <<e_site, e_price, e_composite, e_viability, raw_weights, weights,
                   engine, engine_weights, scored, schedVars, matchVars>>

NextEconomics ==
    \/ CalculateEconomicViability
    \/ CategorizePriority

\* a scored site, a price and an engine are at hand
InitEconomics ==
    /\ e_site \in EconSites
    /\ e_price \in Prices
    /\ e_composite \in CompositeScores
    /\ e_viability = <<>>
    /\ e_priority = <<>>
    /\ raw_weights = <<>> /\ weights = <<>> /\ engine = "constructed"
    /\ engine_weights = DEFAULT_WEIGHTS /\ scored = <<>>
    /\ robots = <<>>
    /\ sites = <<>>
    /\ SchedIdle
    /\ MatchIdle

SpecEconomics == InitEconomics /\ [][NextEconomics]_vars

\* the tier the five rules give, taken in order
TierOf(score, is_viable, roi) ==
    CASE ~is_viable -> "Not Viable"
      [] is_viable /\ score >= 7000 /\ roi > 5000 -> "High Priority"
      [] is_viable /\ ~(score >= 7000 /\ roi > 5000)
            /\ score >= 5000 /\ roi > 2500 -> "Medium Priority"
      [] is_viable /\ ~(score >= 7000 /\ roi > 5000)
            /\ ~(score >= 5000 /\ roi > 2500) /\ score >= 3500 -> "Further Study Needed"
      [] OTHER -> "Low Priority"

Tiers == {"Not Viable", "High Priority", "Medium Priority", "Further Study Needed",
          "Low Priority"}

\* C17: categorize_priority gives every (composite_score, viability) input
\* exactly one of the five tiers, by the rules taken in order: Not Viable when
\* is_viable is false; else High Priority iff score >= 70 and ROI > 50; else
\* Medium Priority iff score >= 50 and ROI > 25; else Further Study Needed iff
\* score >= 35; else Low Priority.  is_viable of calculate_economic_viability
\* is true exactly when the profit per ton is strictly positive.
C17_PriorityTiers ==
    /\ e_viability # <<>> =>
        (e_viability.is_viable
            <=> effective_price_per_ton(e_site, e_price) > total_cost_per_ton(e_site))
    /\ e_priority # <<>> =>
        /\ e_priority.level \in Tiers
        /\ e_priority.level =
              TierOf(e_composite, e_viability.is_viable, e_viability.roi_percent)

\* a viable site with a score of 70 whose return is exactly 50 %: it is
\* categorised, and not as High Priority
C17_Witness ==
    /\ e_priority # <<>>
    /\ e_viability.is_viable
    /\ e_viability.roi_percent = 5000
    /\ e_composite = 7000
    /\ e_priority.level = "Medium Priority"

----------------------------------------------------------------------------
(* RobotSiteMatcher *)

MaxMineralTypes == 2          \* most mineral types of one site

Gold == <<"Gold">>
NodulesField == <<"Polymetallic", "Nodules", "Field">>

SENSOR_KEYS == {Nodules, Sulfides, RareEarth, CobaltCrust}

SENSOR_REQUIREMENTS(key) ==
    CASE key = Nodules -> {"side_scan_sonar", "multi_beam_echo_sounder", "HD_camera"}
      [] key = Sulfides -> {"magnetometer", "side_scan_sonar", "HD_camera",
                            "multi_beam_echo_sounder"}
      [] key = RareEarth -> {"multi_beam_echo_sounder", "sub_bottom_profiler",
                             "sediment_sampler"}
      [] key = CobaltCrust -> {"side_scan_sonar", "HD_camera", "magnetometer"}

\* `key in mineral_type`: the key occurs in the label as a run of words
IsSubstring(key, label) ==
    \E k \in 0..(Len(label) - Len(key)) :
        \A j \in 1..Len(key) : label[k + j] = key[j]

\* mutant: the rated depth is usable in full
check_depth_no_margin(robot, site) ==
    IF site.depth_m <= robot.max_depth_m
    THEN [ok |-> TRUE, msg |-> "Compatible",
          metres |-> robot.max_depth_m - site.depth_m]
    ELSE [ok |-> FALSE, msg |-> "Insufficient depth rating",
          metres |-> site.depth_m - robot.max_depth_m]

\* lines 48-59: usable depth is 90% of the rated depth
check_depth_compatibility(robot, site) ==
    IF site.depth_m * 10 <= robot.max_depth_m * 9
    THEN [ok |-> TRUE, msg |-> "Compatible",
          metres |-> (robot.max_depth_m * 9 - site.depth_m * 10) \div 10]
    ELSE [ok |-> FALSE, msg |-> "Insufficient depth rating",
          metres |-> (site.depth_m * 10 - robot.max_depth_m * 9) \div 10]

\* mutant: only the first mineral type of the site counts
required_sensors_first_type(site) ==
    UNION {SENSOR_REQUIREMENTS(key) :
            key \in {k \in SENSOR_KEYS :
                        /\ site.mineral_types # <<>>
                        /\ IsSubstring(k, site.mineral_types[1])}}

\* lines 73-79 (and 140-144): the sensors the site's mineral types require
required_sensors(site) ==
    UNION {SENSOR_REQUIREMENTS(key) :
            key \in {k \in SENSOR_KEYS :
                        \E i \in 1..Len(site.mineral_types) :
                            IsSubstring(k, site.mineral_types[i])}}

\* lines 72-87
check_sensor_compatibility(robot, site) ==
    LET missing_sensors == required_sensors(site) \ robot.sensors
    IN  IF missing_sensors = {}
        THEN [ok |-> TRUE, msg |-> "All required sensors present", missing |-> {}]
        ELSE [ok |-> FALSE, msg |-> "Missing sensors", missing |-> missing_sensors]

\* mutant: a deployed robot counts as available
check_status_deployed_ok(robot) ==
    IF robot.status \in {"Available", "Deployed"}
    THEN [ok |-> TRUE, msg |-> "Available for deployment"]
    ELSE [ok |-> FALSE, msg |-> "Not available"]

\* lines 99-110
check_status_compatibility(robot) ==
    CASE robot.status = "Available" ->
            [ok |-> TRUE, msg |-> "Available for deployment"]
      [] robot.status = "In Maintenance" ->
            [ok |-> FALSE, msg |-> "Currently in maintenance"]
      [] robot.status = "Deployed" ->
            [ok |-> FALSE, msg |-> "Currently deployed on another mission"]
      [] robot.status = "Retired" ->
            [ok |-> FALSE, msg |-> "Robot retired from service"]
      [] OTHER ->
            [ok |-> FALSE, msg |-> "Unknown status"]

\* mutant: the partial depth credit is not capped
depth_points_uncapped(robot, site) ==
    IF check_depth_compatibility(robot, site).ok
    THEN [n |-> 40, d |-> 1]
    ELSE [n |-> robot.max_depth_m * 40, d |-> site.depth_m]

\* mutant: a failed depth check earns no depth points
depth_points_none_on_fail(robot, site) ==
    IF check_depth_compatibility(robot, site).ok
    THEN [n |-> 40, d |-> 1]
    ELSE [n |-> 0, d |-> 1]

\* lines 126-133: the depth contribution, as a fraction n/d of a point
depth_points(robot, site) ==
    IF check_depth_compatibility(robot, site).ok
    THEN [n |-> 40, d |-> 1]
    ELSE IF robot.max_depth_m < site.depth_m
         THEN [n |-> robot.max_depth_m * 40, d |-> site.depth_m]
         ELSE [n |-> 40, d |-> 1]

\* lines 135-149: the sensor contribution, as a fraction n/d of a point
sensor_points(robot, site) ==
    LET sensors == check_sensor_compatibility(robot, site)
        required == required_sensors(site)
        present_count == Cardinality(required) - Cardinality(sensors.missing)
    IN  IF sensors.ok
        THEN [n |-> 40, d |-> 1]
        ELSE IF Cardinality(required) > 0
             THEN [n |-> present_count * 40, d |-> Cardinality(required)]
             ELSE [n |-> 0, d |-> 1]

\* lines 123-155: the score, in 0.01 point.  The three contributions are
\* added as exact fractions n/d and the sum is rounded to two decimals.
calculate_compatibility_score(robot, site) ==
    LET depth_part == depth_points(robot, site)
        sensor_part == sensor_points(robot, site)
        status_part == IF check_status_compatibility(robot).ok THEN 20 ELSE 0
    IN  RoundHalfEven(
            100 * (depth_part.n * sensor_part.d + sensor_part.n * depth_part.d
                   + status_part * depth_part.d * sensor_part.d),
            depth_part.d * sensor_part.d)

MineralLabels == {Nodules, Sulfides, RareEarth, CobaltCrust, Gold, NodulesField}

RECURSIVE SeqsUpTo(_, _)
SeqsUpTo(S, n) ==
    IF n = 0 THEN {<<>>}
    ELSE SeqsUpTo(S, n - 1) \cup
         {Append(q, x) : q \in {p \in SeqsUpTo(S, n - 1) : Len(p) = n - 1}, x \in S}

MatchRobots ==
    [status : Statuses,
     max_depth_m : {3000, 5000, 6000, 7000},
     sensors : {AllSensors, BaselineSensors, BaselineSensors \ {"HD_camera"},
                {"magnetometer"}, {}}]

MatchSites ==
    [depth_m : {2700, 5000, 5500, 6000},
     mineral_types : SeqsUpTo(MineralLabels, MaxMineralTypes)]

\* mutant: a pair that lacks sensors is partially compatible whatever the
\* robot's status
compatibility_analysis_any_status(robot, site) ==
    LET depth == check_depth_compatibility(robot, site)
        sensor == check_sensor_compatibility(robot, site)
        status == check_status_compatibility(robot)
        is_fully_compatible == depth.ok /\ sensor.ok /\ status.ok
    IN  [compatibility_score |-> calculate_compatibility_score(robot, site),
         overall_status |-> IF is_fully_compatible THEN "Fully Compatible"
                            ELSE IF depth.ok THEN "Partially Compatible"
                            ELSE "Incompatible",
         status_color |-> IF is_fully_compatible THEN "green"
                          ELSE IF depth.ok THEN "yellow"
                          ELSE "red",
         depth_compatible |-> depth.ok,
         depth_message |-> depth.msg,
         sensor_compatible |-> sensor.ok,
         sensor_message |-> sensor.msg,
         missing_sensors |-> sensor.missing,
         status_compatible |-> status.ok,
         status_message |-> status.msg]

\* lines 193-209 and 216-225: the analysis of a robot and a site dictionary
compatibility_analysis(robot, site) ==
    LET depth == check_depth_compatibility(robot, site)
        sensor == check_sensor_compatibility(robot, site)
        status == check_status_compatibility(robot)
        is_fully_compatible == depth.ok /\ sensor.ok /\ status.ok
    IN  [compatibility_score |-> calculate_compatibility_score(robot, site),
         overall_status |-> IF is_fully_compatible THEN "Fully Compatible"
                            ELSE IF depth.ok /\ status.ok THEN "Partially Compatible"
                            ELSE "Incompatible",
         status_color |-> IF is_fully_compatible THEN "green"
                          ELSE IF depth.ok /\ status.ok THEN "yellow"
                          ELSE "red",
         depth_compatible |-> depth.ok,
         depth_message |-> depth.msg,
         sensor_compatible |-> sensor.ok,
         sensor_message |-> sensor.msg,
         missing_sensors |-> sensor.missing,
         status_compatible |-> status.ok,
         status_message |-> status.msg]

\* one query is made on the pair
NoPairQuery == m_score = -1 /\ m_simple = -1 /\ m_detail = <<>>

\* matcher.calculate_compatibility_score(robot, site)
CalculateCompatibilityScore ==
    /\ NoPairQuery
    /\ m_score' = calculate_compatibility_score(m_robot, m_site)
    /\ UNCHANGED <<m_robot, m_site, m_simple, m_detail, fleetVars, schedVars, scoreVars>>

\* optimizer.calculate_compatibility_score_simple(robot, site)
CalculateSimpleScore ==
    /\ NoPairQuery
    /\ m_simple' = calculate_compatibility_score_simple(m_robot, m_site)
    /\ UNCHANGED <<m_robot, m_site, m_score, m_detail, fleetVars, schedVars, scoreVars>>

\* matcher.get_detailed_compatibility on the robot and the site that the two
\* lookups of lines 190-191 returned
DetailedCompatibility ==
    /\ NoPairQuery
    /\ m_detail' = compatibility_analysis(m_robot, m_site)
    /\ UNCHANGED <<m_robot, m_site, m_score, m_simple, fleetVars, schedVars, scoreVars>>

NextMatching ==
    \/ CalculateCompatibilityScore
    \/ CalculateSimpleScore
    \/ DetailedCompatibility

\* a robot dictionary and a site dictionary are at hand
InitMatching ==
    /\ m_robot \in MatchRobots
    /\ m_site \in MatchSites
    /\ m_score = -1
    /\ m_simple = -1
    /\ m_detail = <<>>
    /\ FleetIdle
    /\ robots = <<>>
    /\ sites = <<>>
    /\ SchedIdle
    /\ ScoreIdle

SpecMatching == InitMatching /\ [][NextMatching]_vars

----------------------------------------------------------------------------
(* RobotSiteMatcher over a fleet and a list of sites *)

\* df[df['robot_id'] == robot_id], df[df['site_id'] == site_id]
robot_rows(robots_df, robot_id) == SelectSeq(robots_df, LAMBDA r : r.robot_id = robot_id)
site_rows(sites_df, site_id) == SelectSeq(sites_df, LAMBDA s : s.site_id = site_id)

\* lines 179-226: .iloc[0] of an empty selection raises IndexError
get_detailed_compatibility(robots_df, sites_df, robot_id, site_id) ==
    IF robot_rows(robots_df, robot_id) = <<>> \/ site_rows(sites_df, site_id) = <<>>
    THEN [error |-> "IndexError", value |-> <<>>]
    ELSE LET robot == robot_rows(robots_df, robot_id)[1]
             site == site_rows(sites_df, site_id)[1]
         IN  [error |-> "none",
              value |-> [robot_id |-> robot_id, site_id |-> site_id]
                            @@ compatibility_analysis(robot, site)]

\* list.sort(key=compatibility_score, reverse=True): a stable sort, rows of
\* equal score keep their order
RECURSIVE sort_by_score(_)
sort_by_score(rows) ==
    IF rows = <<>> THEN <<>>
    ELSE LET first == Head(rows)
             rest == sort_by_score(Tail(rows))
         IN  SelectSeq(rest, LAMBDA x : x.compatibility_score > first.compatibility_score)
             \o <<first>>
             \o SelectSeq(rest, LAMBDA x : x.compatibility_score <= first.compatibility_score)

FirstRows(rows, top_n) == SubSeq(rows, 1, Min(top_n, Len(rows)))

\* lines 228-252
find_best_robots_for_site(robots_df, sites_df, site_id, top_n) ==
    LET compatibility(i) ==
            get_detailed_compatibility(robots_df, sites_df, robots_df[i].robot_id, site_id)
        results == [i \in 1..Len(robots_df) |->
                        compatibility(i).value
                            @@ [day_rate_usd |-> robots_df[i].day_rate_usd]]
    IN  IF \E i \in 1..Len(robots_df) : compatibility(i).error # "none"
        THEN [error |-> "IndexError", value |-> <<>>]
        ELSE [error |-> "none", value |-> FirstRows(sort_by_score(results), top_n)]

\* lines 254-277
find_best_sites_for_robot(robots_df, sites_df, robot_id, top_n) ==
    LET compatibility(i) ==
            get_detailed_compatibility(robots_df, sites_df, robot_id, sites_df[i].site_id)
        results == [i \in 1..Len(sites_df) |->
                        compatibility(i).value
                            @@ [estimated_value_millions |->
                                    sites_df[i].estimated_value_millions]]
    IN  IF \E i \in 1..Len(sites_df) : compatibility(i).error # "none"
        THEN [error |-> "IndexError", value |-> <<>>]
        ELSE [error |-> "none", value |-> FirstRows(sort_by_score(results), top_n)]

\* mutant: the shallowest rating of the fleet
min_fleet_depth(robots_df) ==
    CHOOSE d \in {robots_df[i].max_depth_m : i \in 1..Len(robots_df)} :
        \A i \in 1..Len(robots_df) : robots_df[i].max_depth_m >= d

\* robots_df['max_depth_m'].max()
max_fleet_depth(robots_df) ==
    CHOOSE d \in {robots_df[i].max_depth_m : i \in 1..Len(robots_df)} :
        \A i \in 1..Len(robots_df) : robots_df[i].max_depth_m <= d

\* mutant: the deficit is taken against the usable depth, 90% of the rating
identify_equipment_gaps_usable(robots_df, sites_df) ==
    LET deep_sites == IF robots_df = <<>> THEN <<>>
                      ELSE SelectSeq(sites_df,
                              LAMBDA s : s.depth_m * 10 > max_fleet_depth(robots_df) * 9)
        depth_gaps == [i \in 1..Len(deep_sites) |->
                          [site_id |-> deep_sites[i].site_id,
                           site_depth |-> deep_sites[i].depth_m,
                           max_fleet_depth |-> max_fleet_depth(robots_df),
                           depth_deficit |-> deep_sites[i].depth_m
                                                - (max_fleet_depth(robots_df) * 9) \div 10]]
        all_sensors == UNION {robots_df[i].sensors : i \in 1..Len(robots_df)}
        required == UNION {required_sensors(sites_df[i]) : i \in 1..Len(sites_df)}
        missing_sensors == required \ all_sensors
    IN  [depth_gaps |-> depth_gaps,
         sensor_gaps |-> missing_sensors,
         recommendations |->
            (IF missing_sensors # {} THEN <<"acquire sensors">> ELSE <<>>)
            \o (IF depth_gaps # <<>> THEN <<"acquire ultra-deep robots">> ELSE <<>>)]

\* lines 279-333
identify_equipment_gaps(robots_df, sites_df) ==
    LET \* the max() of an empty column is NaN, and no depth is greater than NaN
        deep_sites == IF robots_df = <<>> THEN <<>>
                      ELSE SelectSeq(sites_df,
                              LAMBDA s : s.depth_m * 10 > max_fleet_depth(robots_df) * 9)
        depth_gaps == [i \in 1..Len(deep_sites) |->
                          [site_id |-> deep_sites[i].site_id,
                           site_depth |-> deep_sites[i].depth_m,
                           max_fleet_depth |-> max_fleet_depth(robots_df),
                           depth_deficit |-> deep_sites[i].depth_m
                                                - max_fleet_depth(robots_df)]]
        all_sensors == UNION {robots_df[i].sensors : i \in 1..Len(robots_df)}
        required == UNION {required_sensors(sites_df[i]) : i \in 1..Len(sites_df)}
        missing_sensors == required \ all_sensors
    IN  [depth_gaps |-> depth_gaps,
         sensor_gaps |-> missing_sensors,
         recommendations |->
            (IF missing_sensors # {} THEN <<"acquire sensors">> ELSE <<>>)
            \o (IF depth_gaps # <<>> THEN <<"acquire ultra-deep robots">> ELSE <<>>)]

QueryIds == 1..Len(RobotPool) \cup 1..Len(SitePool)
TopRobots == {1, 3}
TopSites == {1, 5}

\* matcher.get_detailed_compatibility(robot_id, site_id)
GetDetailedCompatibility ==
    /\ f_query = <<>>
    /\ \E robot_id \in QueryIds, site_id \in QueryIds :
        LET r == get_detailed_compatibility(robots, sites, robot_id, site_id)
        IN  /\ f_query' = [op |-> "get_detailed_compatibility",
                           robot_id |-> robot_id, site_id |-> site_id]
            /\ f_result' = r.value
            /\ f_error' = r.error
    /\ UNCHANGED <<pairVars, schedVars, scoreVars>>

\* matcher.find_best_robots_for_site(site_id, top_n)
FindBestRobotsForSite ==
    /\ f_query = <<>>
    /\ \E site_id \in QueryIds, top_n \in TopRobots :
        LET r == find_best_robots_for_site(robots, sites, site_id, top_n)
        IN  /\ f_query' = [op |-> "find_best_robots_for_site",
                           site_id |-> site_id, top_n |-> top_n]
            /\ f_result' = r.value
            /\ f_error' = r.error
    /\ UNCHANGED <<pairVars, schedVars, scoreVars>>

\* matcher.find_best_sites_for_robot(robot_id, top_n)
FindBestSitesForRobot ==
    /\ f_query = <<>>
    /\ \E robot_id \in QueryIds, top_n \in TopSites :
        LET r == find_best_sites_for_robot(robots, sites, robot_id, top_n)
        IN  /\ f_query' = [op |-> "find_best_sites_for_robot",
                           robot_id |-> robot_id, top_n |-> top_n]
            /\ f_result' = r.value
            /\ f_error' = r.error
    /\ UNCHANGED <<pairVars, schedVars, scoreVars>>

\* matcher.identify_equipment_gaps()
IdentifyEquipmentGaps ==
    /\ f_query = <<>>
    /\ f_query' = [op |-> "identify_equipment_gaps"]
    /\ f_result' = identify_equipment_gaps(robots, sites)
    /\ f_error' = "none"
    /\ UNCHANGED <<pairVars, schedVars, scoreVars>>

NextFleet ==
    \/ GetDetailedCompatibility
    \/ FindBestRobotsForSite
    \/ FindBestSitesForRobot
    \/ IdentifyEquipmentGaps

\* RobotSiteMatcher(robots_df, sites_df); either frame may have no rows
InitFleet ==
    /\ robots \in Rosters \cup {<<>>}
    /\ sites \in SiteLists \cup {<<>>}
    /\ FleetIdle
    /\ PairIdle
    /\ SchedIdle
    /\ ScoreIdle

SpecFleet == InitFleet /\ [][NextFleet]_vars

----------------------------------------------------------------------------
(* Properties of the matcher *)

\* the credits of a pair as fractions n/d, as the facets define them
DepthCredit(robot, site) ==
    IF site.depth_m * 10 <= robot.max_depth_m * 9 \/ robot.max_depth_m >= site.depth_m
    THEN [n |-> 1, d |-> 1]
    ELSE [n |-> robot.max_depth_m, d |-> site.depth_m]

SensorCredit(robot, site) ==
    IF required_sensors(site) \subseteq robot.sensors
    THEN [n |-> 1, d |-> 1]
    ELSE [n |-> Cardinality(required_sensors(site) \cap robot.sensors),
          d |-> Cardinality(required_sensors(site))]

StatusCredit(robot) == IF robot.status = "Available" THEN 1 ELSE 0

IsFraction(c) == c.d > 0 /\ c.n >= 0 /\ c.n <= c.d

\* 100 * (depth credit x 40 + sensor credit x 40 + status credit x 20), as a
\* numerator over the denominator CreditDen
CreditNum(robot, site) ==
    LET dc == DepthCredit(robot, site)
        sc == SensorCredit(robot, site)
    IN  100 * (40 * dc.n * sc.d + 40 * sc.n * dc.d + 20 * StatusCredit(robot) * dc.d * sc.d)

CreditDen(robot, site) == DepthCredit(robot, site).d * SensorCredit(robot, site).d

\* C10 as stated: the score lies in [0, 100] and equals
\* depth credit x 40 + sensor credit x 40 + status credit x 20.
C10_ScoreIsExactSum ==
    m_score # -1 =>
        /\ m_score >= 0 /\ m_score <= 100 * 100
        /\ m_score * CreditDen(m_robot, m_site) = CreditNum(m_robot, m_site)

\* C10 amended: the score lies in [0, 100] and is
\* depth credit x 40 + sensor credit x 40 + status credit x 20 rounded to two
\* decimals (within 0.005 of it), each credit being a fraction in [0, 1].
C10_ScoreIsRoundedSum ==
    m_score # -1 =>
        /\ m_score >= 0 /\ m_score <= 100 * 100
        /\ IsFraction(DepthCredit(m_robot, m_site))
        /\ IsFraction(SensorCredit(m_robot, m_site))
        /\ 2 * Abs(m_score * CreditDen(m_robot, m_site) - CreditNum(m_robot, m_site))
               <= CreditDen(m_robot, m_site)

\* a scored pair with partial depth credit, partial sensor credit and a robot
\* that is not Available
C10_Witness ==
    /\ m_score # -1
    /\ m_robot.max_depth_m < m_site.depth_m
    /\ required_sensors(m_site) \cap m_robot.sensors # {}
    /\ ~(required_sensors(m_site) \subseteq m_robot.sensors)
    /\ m_robot.status = "Deployed"

\* depth ratings to compare a robot with: every 500 m up to 8000 m
RatedDepths == {500 * k : k \in 1..16}

WithDepth(robot, depth) == [robot EXCEPT !.max_depth_m = depth]

\* C12: for a fixed site and fixed sensors and status of the robot, the
\* compatibility score does not decrease when max_depth_m grows, and the depth
\* contribution is 40 for every max_depth_m with site depth <= 0.9 * max_depth_m.
C12_ScoreMonotoneInDepth ==
    m_score # -1 =>
        \A depth \in RatedDepths :
            /\ depth >= m_robot.max_depth_m =>
                calculate_compatibility_score(WithDepth(m_robot, depth), m_site) >= m_score
            /\ depth <= m_robot.max_depth_m =>
                calculate_compatibility_score(WithDepth(m_robot, depth), m_site) <= m_score
            /\ m_site.depth_m * 10 <= depth * 9 =>
                LET points == depth_points(WithDepth(m_robot, depth), m_site)
                IN  points.n = 40 * points.d

\* a scored robot rated deeper than the site but by less than the safety
\* margin; a deeper rating passes the depth check
C12_Witness ==
    /\ m_score # -1
    /\ m_robot.max_depth_m > m_site.depth_m
    /\ m_robot.max_depth_m * 9 < m_site.depth_m * 10
    /\ \E depth \in RatedDepths :
        /\ depth > m_robot.max_depth_m
        /\ m_site.depth_m * 10 <= depth * 9

\* min(1, max_depth_m / depth_m) times the weight of the depth facet, as a
\* fraction n/d of a point
MinRatioTimes(weight, robot, site) ==
    IF robot.max_depth_m >= site.depth_m
    THEN [n |-> weight, d |-> 1]
    ELSE [n |-> weight * robot.max_depth_m, d |-> site.depth_m]

SameFraction(p, q) == p.n * q.d = q.n * p.d

DepthFails(robot, site) == ~(site.depth_m * 10 <= robot.max_depth_m * 9)

\* the sum of fractions p and q of a point, rounded to 0.01 point
RoundedSum(p, q) == RoundHalfEven(100 * (p.n * q.d + q.n * p.d), p.d * q.d)

\* C15: the depth facet passes exactly when site depth <= 0.9 * max_depth_m; when
\* it fails the depth credit is min(1, max_depth_m / depth) times the weight of
\* the facet (40 in the matcher score, 50 in the simplified score) and is never
\* more than the weight.  For depth 6000 and max_depth_m 5000 the facet fails
\* with credit 33.33 (matcher) and 41.67 (simplified score).
C15_DepthFacet ==
    /\ m_detail # <<>> =>
        /\ m_detail.depth_compatible <=> ~DepthFails(m_robot, m_site)
        /\ DepthFails(m_robot, m_site) =>
            /\ SameFraction(depth_points(m_robot, m_site),
                            MinRatioTimes(40, m_robot, m_site))
            /\ depth_points(m_robot, m_site).n <= 40 * depth_points(m_robot, m_site).d
            /\ m_detail.compatibility_score =
                 RoundedSum(MinRatioTimes(40, m_robot, m_site),
                            [n |-> sensor_points(m_robot, m_site).n
                                    + StatusCredit(m_robot) * 20
                                        * sensor_points(m_robot, m_site).d,
                             d |-> sensor_points(m_robot, m_site).d])
        /\ m_robot.max_depth_m = 5000 /\ m_site.depth_m = 6000 =>
            /\ ~m_detail.depth_compatible
            /\ RoundedSum(depth_points(m_robot, m_site), [n |-> 0, d |-> 1]) = 3333
    /\ m_simple # -1 /\ DepthFails(m_robot, m_site) =>
        /\ SameFraction(simple_depth_points(m_robot, m_site),
                        MinRatioTimes(50, m_robot, m_site))
        /\ simple_depth_points(m_robot, m_site).n
               <= 50 * simple_depth_points(m_robot, m_site).d
        /\ m_simple =
             RoundedSum(MinRatioTimes(50, m_robot, m_site),
                        [n |-> 50 * Cardinality(BaselineSensors \cap m_robot.sensors),
                         d |-> Cardinality(BaselineSensors)])
        /\ m_robot.max_depth_m = 5000 /\ m_site.depth_m = 6000 =>
            RoundedSum(simple_depth_points(m_robot, m_site), [n |-> 0, d |-> 1]) = 4167

\* the pair of the example, analysed: depth 6000 and max_depth_m 5000
C15_Witness ==
    /\ m_detail # <<>>
    /\ m_robot.max_depth_m = 5000
    /\ m_site.depth_m = 6000
    /\ ~m_detail.depth_compatible

\* the table entry of a mineral type: the sensors listed under the table keys
\* that the type's label contains
TableEntry(mineral_type) ==
    UNION {SENSOR_REQUIREMENTS(key) :
            key \in {k \in SENSOR_KEYS : IsSubstring(k, mineral_type)}}

RequiredUnion(site) ==
    UNION {TableEntry(site.mineral_types[i]) : i \in 1..Len(site.mineral_types)}

\* C16: the sensors required for a site are the union of the table entries of
\* all its mineral types; the sensor facet passes exactly when the robot's
\* sensors include them all; otherwise the sensor credit is
\* |required /\ present| / |required| of 40 and missing_sensors is required
\* minus present.  For a site requiring only the 'Polymetallic Nodules' sensors
\* and a robot lacking only HD_camera: one missing sensor, 2/3 of the weight.
C16_SensorFacet ==
    m_detail # <<>> =>
        LET required == RequiredUnion(m_site)
            present == required \cap m_robot.sensors
        IN  /\ m_detail.sensor_compatible <=> required \subseteq m_robot.sensors
            /\ m_detail.missing_sensors = required \ m_robot.sensors
            /\ ~m_detail.sensor_compatible =>
                /\ SameFraction(sensor_points(m_robot, m_site),
                                [n |-> 40 * Cardinality(present),
                                 d |-> Cardinality(required)])
                /\ m_detail.compatibility_score =
                     RoundedSum([n |-> 40 * Cardinality(present),
                                 d |-> Cardinality(required)],
                                [n |-> depth_points(m_robot, m_site).n
                                        + StatusCredit(m_robot) * 20
                                            * depth_points(m_robot, m_site).d,
                                 d |-> depth_points(m_robot, m_site).d])
            /\ (/\ required = SENSOR_REQUIREMENTS(Nodules)
                /\ m_robot.sensors \cap AllSensors = BaselineSensors \ {"HD_camera"}) =>
                /\ m_detail.missing_sensors = {"HD_camera"}
                /\ SameFraction(sensor_points(m_robot, m_site), [n |-> 2 * 40, d |-> 3])

\* an analysed site of two mineral types whose entries differ, and a robot that
\* has some but not all of the required sensors
C16_Witness ==
    /\ m_detail # <<>>
    /\ Len(m_site.mineral_types) = 2
    /\ TableEntry(m_site.mineral_types[1]) # TableEntry(m_site.mineral_types[2])
    /\ TableEntry(m_site.mineral_types[2]) # {}
    /\ ~m_detail.sensor_compatible
    /\ RequiredUnion(m_site) \cap m_robot.sensors # {}

\* C18: get_detailed_compatibility gives each pair exactly one of: Fully
\* Compatible when the depth, sensor and status facets all pass; Partially
\* Compatible when depth and status pass but sensors do not; Incompatible
\* otherwise.
C18_OverallStatus ==
    m_detail # <<>> =>
        LET depth_ok == ~DepthFails(m_robot, m_site)
            sensor_ok == RequiredUnion(m_site) \subseteq m_robot.sensors
            status_ok == m_robot.status = "Available"
        IN  /\ m_detail.overall_status
                  \in {"Fully Compatible", "Partially Compatible", "Incompatible"}
            /\ m_detail.overall_status = "Fully Compatible"
                  <=> depth_ok /\ sensor_ok /\ status_ok
            /\ m_detail.overall_status = "Partially Compatible"
                  <=> depth_ok /\ status_ok /\ ~sensor_ok
            /\ m_detail.overall_status = "Incompatible"
                  <=> ~(depth_ok /\ status_ok)
            /\ m_detail.depth_compatible = depth_ok
            /\ m_detail.sensor_compatible = sensor_ok
            /\ m_detail.status_compatible = status_ok

\* an analysed pair that lacks sensors only, and is Partially Compatible
C18_Witness ==
    /\ m_detail # <<>>
    /\ m_detail.overall_status = "Partially Compatible"
    /\ m_detail.missing_sensors # {}
    /\ m_robot.status = "Available"

----------------------------------------------------------------------------
(* Properties of the matcher over a fleet *)

GapsReported == f_query # <<>> /\ f_query.op = "identify_equipment_gaps"

GapSiteIds == {f_result.depth_gaps[j].site_id : j \in 1..Len(f_result.depth_gaps)}

\* C11: for a fleet of at least one robot, identify_equipment_gaps lists a site
\* among the depth gaps exactly when its depth is strictly greater than 0.9
\* times the largest max_depth_m of any robot of the fleet, whatever the
\* robots' status.
C11_DepthGapsBeyondFleetDepth ==
    GapsReported /\ robots # <<>> =>
        \A i \in 1..Len(sites) :
            sites[i].site_id \in GapSiteIds
                <=> \A k \in 1..Len(robots) :
                        sites[i].depth_m * 10 > robots[k].max_depth_m * 9

\* a fleet whose deepest robot is not Available: one site is listed, another is
\* within 0.9 of that robot's rating only and is not listed
C11_Witness ==
    /\ GapsReported
    /\ \E k \in 1..Len(robots) :
        /\ robots[k].status # "Available"
        /\ \A j \in 1..Len(robots) :
            j # k => robots[j].max_depth_m < robots[k].max_depth_m
        /\ \E i \in 1..Len(sites) :
            /\ sites[i].site_id \notin GapSiteIds
            /\ \A j \in 1..Len(robots) :
                j # k => sites[i].depth_m * 10 > robots[j].max_depth_m * 9
    /\ GapSiteIds # {}
    /\ Len(robots) > 1

AbsentRobot(robot_id) == robot_rows(robots, robot_id) = <<>>
AbsentSite(site_id) == site_rows(sites, site_id) = <<>>

\* the query names a robot or a site that its collection does not hold
AbsentIdQueried ==
    /\ f_query # <<>>
    /\ \/ /\ f_query.op = "get_detailed_compatibility"
          /\ AbsentRobot(f_query.robot_id) \/ AbsentSite(f_query.site_id)
       \/ /\ f_query.op = "find_best_robots_for_site"
          /\ AbsentSite(f_query.site_id)
       \/ /\ f_query.op = "find_best_sites_for_robot"
          /\ AbsentRobot(f_query.robot_id)

\* C13: get_detailed_compatibility and the two ranking queries, asked about a
\* robot_id or site_id that the collection does not hold, fail with the
\* lookup's error and yield no result.
C13_AbsentIdFails ==
    AbsentIdQueried => f_error = "IndexError" /\ f_result = <<>>


\* the site is deeper than 90% of the robot's rating but not deeper than the
\* rating
InSafetyMargin(robot, site) ==
    /\ robot.max_depth_m * 9 < site.depth_m * 10
    /\ site.depth_m <= robot.max_depth_m

\* C29: a pair classified 'Fully Compatible' has score 100; a pair whose
\* site lies in the safety margin of the robot, with no sensor missing and
\* status Available, also has score 100 (the depth still earns its 40
\* points) while its depth facet is incompatible and its class 'Incompatible'
C29_FullScoreNotFullyCompatible ==
    m_detail # <<>> =>
        /\ m_detail.overall_status = "Fully Compatible"
             => m_detail.compatibility_score = 100 * 100
        /\ (/\ InSafetyMargin(m_robot, m_site)
            /\ m_detail.missing_sensors = {}
            /\ m_detail.sensor_compatible
            /\ m_robot.status = "Available")
             => /\ ~m_detail.depth_compatible
                /\ m_detail.compatibility_score = 100 * 100
                /\ m_detail.overall_status = "Incompatible"

\* the analysis of such a pair in the safety margin
C29_Witness ==
    /\ m_detail # <<>>
    /\ InSafetyMargin(m_robot, m_site)
    /\ m_robot.status = "Available"
    /\ m_detail.compatibility_score = 100 * 100
    /\ m_detail.overall_status = "Incompatible"


\* the rating of the deepest-rated robot of the fleet
DeepestRating == CHOOSE d \in {robots[k].max_depth_m : k \in 1..Len(robots)} :
                    \A k \in 1..Len(robots) : robots[k].max_depth_m <= d

GapSite(gap) == CHOOSE s \in Range(sites) : s.site_id = gap.site_id

\* C30: a depth-gap entry reports depth_deficit = site depth - the largest
\* max_depth_m of the fleet, without the margin of 0.9: the deficit is > 0
\* only for a site deeper than every robot's rating, and is <= 0 for a
\* listed site between 0.9 times the deepest rating and that rating
C30_DeficitAgainstRating ==
    GapsReported /\ robots # <<>> =>
        \A j \in 1..Len(f_result.depth_gaps) :
            LET gap == f_result.depth_gaps[j]
                site == GapSite(gap)
            IN  /\ gap.site_depth = site.depth_m
                /\ gap.max_fleet_depth = DeepestRating
                /\ gap.depth_deficit = site.depth_m - DeepestRating
                /\ gap.depth_deficit > 0
                     <=> \A k \in 1..Len(robots) : site.depth_m > robots[k].max_depth_m
                /\ (site.depth_m * 10 > DeepestRating * 9 /\ site.depth_m <= DeepestRating)
                     => gap.depth_deficit <= 0

\* a report that lists a site within the rating of the deepest robot, with a
\* negative deficit, next to a site beyond it
C30_Witness ==
    /\ GapsReported
    /\ robots # <<>>
    /\ \E j \in 1..Len(f_result.depth_gaps) : f_result.depth_gaps[j].depth_deficit < 0
    /\ \E j \in 1..Len(f_result.depth_gaps) : f_result.depth_gaps[j].depth_deficit > 0

====
